---- MODULE Spec2Model ----
(***************************************************************************)
(* Model of checker.py (CheckerBase): the comparison and verdict           *)
(* aggregation engine of the testcase validator.                           *)
(*                                                                         *)
(* A path is the sequence of its pathlib parts (an absolute path starts    *)
(* with the part "/").  The filesystem is a read-only snapshot fs mapping  *)
(* paths to entries.  collect_result is a process with a program counter;  *)
(* diff and diff_dir are operators over the snapshot.                      *)
(***************************************************************************)
EXTENDS Integers, Sequences, FiniteSets, TLC

VARIABLES
    fs,          \* the filesystem snapshot: path -> entry
    pc,          \* position of the running method
    check_cio,   \* collect_result: list returned by find_cio_pairs
    check_file,  \* collect_result: list returned by find_file_pairs
    idx,         \* position of the running for loop in its list
    results,     \* collect_result: the verdict under construction
    exc,         \* type of the exception that ended the call, "" if none
    faults,      \* number of diff subprocess failures so far
    ret          \* value returned by a direct call of diff / diff_dir

vars == <<fs, pc, check_cio, check_file, idx, results, exc, faults, ret>>

----------------------------------------------------------------------------
(* Bounds of the model *)

\* At most this many runs of the diff subprocess end abnormally in one call.
MaxToolFaults == 1

----------------------------------------------------------------------------
(* RunnerEnv constants (imported from notBaekjunCommon) *)

DIFF_PASS == 0
DIFF_FAIL == 1
DIFF_ERR == 2

F_STDIN == "stdin"
F_STDOUT == "stdout"
F_STDERR == "stderr"

EXPECTED_CONSOLE == <<"/", "expected", "console">>
OUTPUT_DIR == <<"/", "output">>
EXPECTED_FILE == <<"/", "expected", "file">>
HOME_DIR == <<"/", "home">>

----------------------------------------------------------------------------
(* Filesystem entries *)

NoEntry == [kind |-> "none", text |-> "", mode |-> 0, target |-> <<>>]
\* st_mode = S_IFREG | 0644
RegFile(t) == [kind |-> "file", text |-> t, mode |-> \o100644, target |-> <<>>]
\* st_mode = S_IFDIR | perms
Directory(p) == [kind |-> "dir", text |-> "", mode |-> \o40000 + p, target |-> <<>>]
\* st_mode = S_IFLNK | 0777
SymLink(t) == [kind |-> "link", text |-> "", mode |-> \o120777, target |-> t]
\* st_mode = S_IFIFO | 0644
Fifo == [kind |-> "fifo", text |-> "", mode |-> \o10644, target |-> <<>>]

\* lstat of a path: the entry itself, NoEntry if nothing is there
Entry(p) == IF p \in DOMAIN fs THEN fs[p] ELSE NoEntry

Front(s) == SubSeq(s, 1, Len(s) - 1)
LastPart(s) == s[Len(s)]

\* Path.resolve(): every component that is a symbolic link is replaced by
\* its target (targets in the snapshot are themselves resolved paths)
RECURSIVE Resolve(_)
Resolve(p) ==
    IF Len(p) <= 1 THEN p
    ELSE LET q == Resolve(Front(p)) \o <<LastPart(p)>>
         IN  IF Entry(q).kind = "link" THEN Entry(q).target ELSE q

\* Path.is_file() / Path.is_dir(): stat(), which follows symbolic links
is_file(p) == Entry(Resolve(p)).kind = "file"
is_dir(p) == Entry(Resolve(p)).kind = "dir"

\* str.join("/") over path parts
RECURSIVE JoinParts(_)
JoinParts(s) ==
    IF Len(s) = 0 THEN ""
    ELSE IF Len(s) = 1 THEN s[1]
    ELSE s[1] \o "/" \o JoinParts(Tail(s))

\* PurePath.as_posix()
as_posix(p) ==
    IF Len(p) > 0 /\ p[1] = "/" THEN "/" \o JoinParts(Tail(p)) ELSE JoinParts(p)

\* PurePath.relative_to(root), for a path below root
relative_to(p, root) == SubSeq(p, Len(root) + 1, Len(p))

\* PurePath.name
name(p) == LastPart(p)

----------------------------------------------------------------------------
(* Bit arithmetic *)

\* a ^ b on non-negative integers
RECURSIVE BitXor(_, _)
BitXor(a, b) ==
    IF a = 0 /\ b = 0 THEN 0
    ELSE (((a % 2) + (b % 2)) % 2) + (2 * BitXor(a \div 2, b \div 2))

\* stat.S_IMODE: mode & 0o7777
S_IMODE(m) == m % \o10000

\* faulty variant of get_perms: keeps the nine rwx bits only, dropping
\* setuid, setgid and sticky
get_perms_rwx(p) == Entry(p).mode % \o1000

\* get_perms: S_IMODE(path.lstat().st_mode)
get_perms(p) == S_IMODE(Entry(p).mode)

----------------------------------------------------------------------------
(* Diff outcomes: the (status, payload) tuples; the payload of diff is a   *)
(* str, the payload of diff_dir an int                                     *)

TextOutcome(s, t) == [status |-> s, kind |-> "text", text |-> t, mask |-> 0]
MaskOutcome(s, m) == [status |-> s, kind |-> "mask", text |-> "", mask |-> m]

\* the tuple a method returns before any result exists
NoOutcome == [status |-> DIFF_ERR, kind |-> "none", text |-> "", mask |-> 0]

----------------------------------------------------------------------------
(* The diff subprocess: exec([*CheckerBase.DIFF, path1, path2])            *)

\* A line of file content that is not valid UTF-8 (the byte 0xFE)
NonUtf8Line == "\\xfe\n"

\* bytes.decode(): whether a one-line content decodes as UTF-8
Decodes(t) == t # NonUtf8Line

\* How one run of the subprocess ends abnormally: with an exit status
\* other than 0 and 1 (diff's own trouble exit 2 for an unreadable file or
\* an I/O error, or any other status) or killed by a signal (SIGKILL,
\* SIGTERM), in both cases either before it has written anything to its
\* stdout or after it has written its output ("_out"); or not started at
\* all: no diff on PATH (ENOENT), diff not executable (EACCES), or another
\* failure of the start (EMFILE, ENOEXEC)
EndsBeforeOutput == {"exit2", "exit3", "sigkill", "sigterm"}
EndsAfterOutput == {"exit2_out", "exit3_out", "sigkill_out", "sigterm_out"}
ToolFaultKinds ==
    EndsBeforeOutput \cup EndsAfterOutput \cup {"enoent", "eacces", "emfile"}

\* the exception subprocess.run raises when the process cannot be started:
\* the OSError subclass Python maps the errno to
StartError(fault) ==
    CASE fault = "enoent" -> "FileNotFoundError"
      [] fault = "eacces" -> "PermissionError"
      [] fault = "emfile" -> "OSError"
      [] OTHER -> ""

\* isinstance(e, cls) for the exception types that occur here
IsInstance(e, cls) ==
    \/ e = cls
    \/ cls = "OSError" /\ e \in {"FileNotFoundError", "PermissionError",
                                  "NotADirectoryError"}
    \/ cls = "ValueError" /\ e = "UnicodeDecodeError"

\* the return code subprocess.run reports for an abnormal end; death by
\* signal N is reported as -N
FaultReturnCode(fault) ==
    CASE fault \in {"exit2", "exit2_out"} -> 2
      [] fault \in {"exit3", "exit3_out"} -> 3
      [] fault \in {"sigkill", "sigkill_out"} -> -9
      [] fault \in {"sigterm", "sigterm_out"} -> -15

\* CheckerBase.DIFF = "diff --no-dereference -s --"; -s makes diff report
\* identical files on stdout.  Files here hold one line of text.  decodes
\* tells whether the captured output is valid UTF-8.
DiffOutput(r1, r2) ==
    IF Entry(r1).text = Entry(r2).text
    THEN [returncode |-> 0,
          stdout |-> "Files " \o as_posix(r1) \o " and " \o as_posix(r2)
                     \o " are identical\n",
          decodes |-> TRUE]
    ELSE [returncode |-> 1,
          stdout |-> "1c1\n< " \o Entry(r1).text \o "---\n> "
                     \o Entry(r2).text,
          decodes |-> Decodes(Entry(r1).text) /\ Decodes(Entry(r2).text)]

\* What subprocess.run captures from one run: the return code and the
\* output written until the process ended (the output of these one-line
\* files is written by diff in one piece)
RunDiffTool(r1, r2, fault) ==
    IF fault \in EndsBeforeOutput
    THEN [returncode |-> FaultReturnCode(fault), stdout |-> "", decodes |-> TRUE]
    ELSE IF fault \in EndsAfterOutput
    THEN [returncode |-> FaultReturnCode(fault),
          stdout |-> DiffOutput(r1, r2).stdout,
          decodes |-> DiffOutput(r1, r2).decodes]
    ELSE DiffOutput(r1, r2)

\* exec: subprocess.run(..., capture_output=True, text=True) raises when
\* the process cannot be started and when the captured output does not
\* decode; "" when it returns
ExecRaises(r1, r2, fault) ==
    IF StartError(fault) # "" THEN StartError(fault)
    ELSE IF ~RunDiffTool(r1, r2, fault).decodes THEN "UnicodeDecodeError"
    ELSE ""

\* diff reaches the subprocess only when both resolved paths are files
DiffRunsTool(path1, path2) == is_file(Resolve(path1)) /\ is_file(Resolve(path2))

\* the exception a call of diff ends with, "" when it returns
DiffRaises(path1, path2, fault) ==
    IF DiffRunsTool(path1, path2)
    THEN ExecRaises(Resolve(path1), Resolve(path2), fault)
    ELSE ""

\* faulty variant of diff: a missing or non-regular file is reported as
\* DIFFERENT
diff_missing_differs(path1, path2, fault) ==
    LET r1 == Resolve(path1)
        r2 == Resolve(path2)
    IN  IF ~is_file(r1) \/ ~is_file(r2)
        THEN TextOutcome(DIFF_FAIL, "")
        ELSE LET res == RunDiffTool(r1, r2, fault)
             IN  TextOutcome(res.returncode, res.stdout)

\* CheckerBase.diff
diff(path1, path2, fault) ==
    LET r1 == Resolve(path1)
        r2 == Resolve(path2)
    IN  IF ~is_file(r1) \/ ~is_file(r2)
        THEN TextOutcome(DIFF_ERR, "")
        ELSE LET res == RunDiffTool(r1, r2, fault)
             IN  TextOutcome(res.returncode, res.stdout)

\* CheckerBase.diff_dir
diff_dir(path1, path2) ==
    LET r1 == Resolve(path1)
        r2 == Resolve(path2)
    IN  IF ~is_dir(r1) \/ ~is_dir(r2)
        THEN MaskOutcome(DIFF_ERR, 0)
        ELSE LET perm1 == get_perms(r1)
                 perm2 == get_perms(r2)
                 status == IF perm1 = perm2 THEN DIFF_PASS ELSE DIFF_FAIL
             IN  MaskOutcome(status, BitXor(perm1, perm2))

----------------------------------------------------------------------------
(* Directory listings *)

\* all orders in which the members of a finite set can be listed
Orderings(S) ==
    {s \in [1..Cardinality(S) -> S] :
        \A i, j \in 1..Cardinality(S) : i # j => s[i] # s[j]}

IsPrefix(r, p) == Len(r) <= Len(p) /\ SubSeq(p, 1, Len(r)) = r

\* the entries directly inside directory d
ListDir(d) == {p \in DOMAIN fs : Len(p) = Len(d) + 1 /\ Front(p) = d
                                  /\ fs[p].kind # "none"}

\* Path.rglob("*"): every entry below root, reached through real
\* directories only (the walk does not descend into symbolic links)
RGlobSet(root) ==
    IF ~is_dir(root) THEN {}
    ELSE {p \in DOMAIN fs :
            /\ IsPrefix(root, p) /\ Len(p) > Len(root)
            /\ fs[p].kind # "none"
            /\ \A k \in (Len(root) + 1)..(Len(p) - 1) :
                   Entry(SubSeq(p, 1, k)).kind = "dir"}

\* the walk lists a directory before the entries inside it; the order
\* among siblings is the operating system's
RGlobOrders(root) ==
    {s \in Orderings(RGlobSet(root)) :
        \A i, j \in 1..Len(s) : IsPrefix(s[i], s[j]) => i <= j}

\* faulty variant of find_cio_pairs: the stdin file is not excluded
find_cio_pairs_all(order) ==
    [k \in 1..Len(order) |-> <<order[k], OUTPUT_DIR \o <<name(order[k])>> >>]

\* CheckerBase.find_cio_pairs, for one order of iterdir()
find_cio_pairs(order) ==
    LET kept == SelectSeq(order, LAMBDA file : name(file) # F_STDIN)
    IN  [k \in 1..Len(kept) |-> <<kept[k], OUTPUT_DIR \o <<name(kept[k])>> >>]

\* CheckerBase.find_file_pairs, for one order of rglob("*")
find_file_pairs(order) ==
    [k \in 1..Len(order) |->
        <<order[k], HOME_DIR \o relative_to(order[k], EXPECTED_FILE)>>]

----------------------------------------------------------------------------
(* Filesystem snapshots *)

ConsoleNames == {F_STDIN, F_STDOUT, F_STDERR, "notes.txt"}
RelPaths == {<<"out">>, <<"out", "a.txt">>}

OutsideFile == <<"/", "outside", "secret.txt">>
OutsideDir == <<"/", "outside", "dir">>
OutsideGone == <<"/", "outside", "gone">>

\* every single permission bit and some usual masks
PermChoices == {2 ^ i : i \in 0..11} \cup {0, \o700, \o744, \o755, \o4755, \o7777}

\* what an entry of each root may be in the runs of collect_result
ExpConsoleEntries == {NoEntry, RegFile("5\n")}
\* (a captured stream that differs from the expected one is the one that
\* does not decode; differing text that decodes occurs among the files)
ActConsoleEntries == {NoEntry, RegFile("5\n"), RegFile(NonUtf8Line)}
ExpFileEntries == {NoEntry, RegFile("5\n"), Directory(\o755), Fifo,
                   SymLink(OutsideFile), SymLink(OutsideDir),
                   SymLink(OutsideGone)}
ActFileEntries == {NoEntry, RegFile("5\n"), RegFile("6\n"),
                   Directory(\o755), Directory(\o744)}
\* what the two arguments of a direct call of diff / diff_dir may be
ArgEntries == {NoEntry, RegFile("5\n"), RegFile("6\n"),
               RegFile(NonUtf8Line), Fifo,
               SymLink(OutsideFile), SymLink(OutsideDir), SymLink(OutsideGone)}
              \cup {Directory(p) : p \in PermChoices}

\* an entry exists only inside a real directory; directories occur at the
\* first level of a root
Trees(entries) ==
    {t \in [RelPaths -> entries] :
        \A r \in RelPaths :
            /\ (Len(r) > 1 /\ t[r].kind # "none") => t[Front(r)].kind = "dir"
            /\ Len(r) > 1 => t[r].kind # "dir"}

AllAbsent(f) == \A x \in DOMAIN f : f[x].kind = "none"

AllPaths ==
    {EXPECTED_CONSOLE, OUTPUT_DIR, EXPECTED_FILE, HOME_DIR,
     OutsideFile, OutsideDir, OutsideGone}
    \cup {EXPECTED_CONSOLE \o <<n>> : n \in ConsoleNames}
    \cup {OUTPUT_DIR \o <<n>> : n \in ConsoleNames}
    \cup {EXPECTED_FILE \o r : r \in RelPaths}
    \cup {HOME_DIR \o r : r \in RelPaths}

Snapshot(croot, cexp, cact, froot, fexp, fact) ==
    [p \in AllPaths |->
        CASE p = EXPECTED_CONSOLE -> IF croot THEN Directory(\o755) ELSE NoEntry
          [] p = EXPECTED_FILE -> IF froot THEN Directory(\o755) ELSE NoEntry
          [] p \in {OUTPUT_DIR, HOME_DIR, OutsideDir} -> Directory(\o755)
          [] p = OutsideFile -> RegFile("5\n")
          [] p = OutsideGone -> NoEntry
          [] Front(p) = EXPECTED_CONSOLE -> cexp[name(p)]
          [] Front(p) = OUTPUT_DIR ->
                IF name(p) \in DOMAIN cact THEN cact[name(p)] ELSE NoEntry
          [] IsPrefix(EXPECTED_FILE, p) -> fexp[relative_to(p, EXPECTED_FILE)]
          [] OTHER -> fact[relative_to(p, HOME_DIR)]]

----------------------------------------------------------------------------
(* State *)

\* results = {"console": {}, "file": {}, "status": None}
EmptyDict == [k \in {} |-> NoOutcome]
NewResults == [console |-> EmptyDict, file |-> EmptyDict, status |-> "None"]

\* self.status, set to None by __init__ and by nothing else
SelfStatus == "None"

NoCall == [fn |-> "none", value |-> NoOutcome]

\* d[k] = v
Put(d, k, v) == [x \in DOMAIN d \cup {k} |-> IF x = k THEN v ELSE d[x]]

Idle ==
    /\ check_cio = <<>>
    /\ check_file = <<>>
    /\ idx = 0
    /\ results = NewResults
    /\ exc = ""
    /\ faults = 0
    /\ ret = NoCall

\* A checker has been constructed over some snapshot; collect_result is
\* about to be called
Init ==
    /\ \E croot \in BOOLEAN, froot \in BOOLEAN,
          cexp \in [ConsoleNames -> ExpConsoleEntries],
          cact \in [{F_STDOUT, F_STDERR} -> ActConsoleEntries],
          fexp \in Trees(ExpFileEntries), fact \in Trees(ActFileEntries) :
            /\ ~croot => AllAbsent(cexp)
            /\ ~froot => AllAbsent(fexp)
            /\ fs = Snapshot(croot, cexp, cact, froot, fexp, fact)
    /\ pc = "start"
    /\ Idle

\* the faults one run of the diff subprocess may end with
FaultChoices(path1, path2) ==
    IF DiffRunsTool(path1, path2) /\ faults < MaxToolFaults
    THEN {"none"} \cup ToolFaultKinds
    ELSE {"none"}

----------------------------------------------------------------------------
(* CheckerBase.collect_result, one step per call or loop iteration *)

Raise(e) ==
    /\ pc' = "raised"
    /\ exc' = e

\* faulty variant of RaiseUnexpected: the pair is skipped silently
SkipUnexpected ==
    /\ idx' = idx + 1
    /\ UNCHANGED <<pc, exc, results, faults>>

\* else: raise ValueError("Unexpected console IO comparison")
RaiseUnexpected ==
    /\ Raise("ValueError")
    /\ UNCHANGED <<idx, results, faults>>

\* check_cio = self.find_cio_pairs(); iterdir() raises when the
\* expected-console root is not a directory
FindCioPairs ==
    /\ pc = "start"
    /\ IF is_dir(EXPECTED_CONSOLE)
       THEN /\ \E order \in Orderings(ListDir(EXPECTED_CONSOLE)) :
                 check_cio' = find_cio_pairs(order)
            /\ idx' = 1
            /\ pc' = "cio"
            /\ exc' = exc
       ELSE /\ Raise(IF Entry(Resolve(EXPECTED_CONSOLE)).kind = "none"
                     THEN "FileNotFoundError" ELSE "NotADirectoryError")
            /\ UNCHANGED <<check_cio, idx>>
    /\ UNCHANGED <<fs, check_file, results, faults, ret>>

\* one iteration of: for expected, actual in check_cio
CioStep ==
    /\ pc = "cio"
    /\ idx <= Len(check_cio)
    /\ LET expected == check_cio[idx][1]
           actual == check_cio[idx][2]
           key == IF name(expected) = F_STDOUT THEN "stdout" ELSE "stderr"
       IN  IF name(expected) = F_STDOUT \/ name(expected) = F_STDERR
           THEN \E fault \in FaultChoices(expected, actual) :
                  /\ faults' = IF fault = "none" THEN faults ELSE faults + 1
                  /\ IF DiffRaises(expected, actual, fault) # ""
                     THEN /\ Raise(DiffRaises(expected, actual, fault))
                          /\ UNCHANGED <<idx, results>>
                     ELSE /\ results' =
                               [results EXCEPT !.console =
                                   Put(@, key, diff(expected, actual, fault))]
                          /\ idx' = idx + 1
                          /\ UNCHANGED <<pc, exc>>
           ELSE RaiseUnexpected
    /\ UNCHANGED <<fs, check_cio, check_file, ret>>

\* check_file = self.find_file_pairs(), once the console loop has ended
FindFilePairs ==
    /\ pc = "cio"
    /\ idx > Len(check_cio)
    /\ \E order \in RGlobOrders(EXPECTED_FILE) :
         check_file' = find_file_pairs(order)
    /\ idx' = 1
    /\ pc' = "file"
    /\ UNCHANGED <<fs, check_cio, results, exc, faults, ret>>

\* one iteration of: for expected, actual in check_file
FileStep ==
    /\ pc = "file"
    /\ idx <= Len(check_file)
    /\ LET expected == check_file[idx][1]
           actual == check_file[idx][2]
           part == as_posix(relative_to(expected, EXPECTED_FILE))
       IN  IF is_file(expected)
           THEN \E fault \in FaultChoices(expected, actual) :
                  /\ faults' = IF fault = "none" THEN faults ELSE faults + 1
                  /\ IF DiffRaises(expected, actual, fault) # ""
                     THEN /\ Raise(DiffRaises(expected, actual, fault))
                          /\ UNCHANGED <<idx, results>>
                     ELSE /\ results' =
                               [results EXCEPT !.file =
                                   Put(@, part, diff(expected, actual, fault))]
                          /\ idx' = idx + 1
                          /\ UNCHANGED <<pc, exc>>
           ELSE IF is_dir(expected)
           THEN /\ results' =
                     [results EXCEPT !.file =
                         Put(@, part, diff_dir(expected, actual))]
                /\ idx' = idx + 1
                /\ UNCHANGED <<pc, exc, faults>>
           ELSE /\ idx' = idx + 1
                /\ UNCHANGED <<pc, exc, faults, results>>
    /\ UNCHANGED <<fs, check_cio, check_file, ret>>

\* results["status"] = self.status; return results
Return ==
    /\ pc = "file"
    /\ idx > Len(check_file)
    /\ results' = [results EXCEPT !.status = SelfStatus]
    /\ pc' = "returned"
    /\ UNCHANGED <<fs, check_cio, check_file, idx, exc, faults, ret>>

Next ==
    \/ FindCioPairs
    \/ CioStep
    \/ FindFilePairs
    \/ FileStep
    \/ Return

Spec == Init /\ [][Next]_vars

----------------------------------------------------------------------------
(* Direct calls of the two comparators on an expected and an actual path *)

Path1 == EXPECTED_FILE \o <<"out">>
Path2 == HOME_DIR \o <<"out">>

InitCall ==
    /\ \E e1 \in ArgEntries, e2 \in ArgEntries :
         fs = Snapshot(TRUE, [n \in ConsoleNames |-> NoEntry],
                       [n \in {F_STDOUT, F_STDERR} |-> NoEntry], TRUE,
                       [r \in RelPaths |-> IF r = <<"out">> THEN e1 ELSE NoEntry],
                       [r \in RelPaths |-> IF r = <<"out">> THEN e2 ELSE NoEntry])
    /\ pc = "idle"
    /\ Idle

\* self.diff(Path1, Path2)
CallDiff ==
    /\ pc = "idle"
    /\ \E fault \in FaultChoices(Path1, Path2) :
         /\ faults' = IF fault = "none" THEN faults ELSE faults + 1
         /\ IF DiffRaises(Path1, Path2, fault) # ""
            THEN /\ Raise(DiffRaises(Path1, Path2, fault))
                 /\ ret' = ret
            ELSE /\ ret' = [fn |-> "diff", value |-> diff(Path1, Path2, fault)]
                 /\ pc' = "called"
                 /\ exc' = exc
    /\ UNCHANGED <<fs, check_cio, check_file, idx, results>>

\* self.diff_dir(Path1, Path2)
CallDiffDir ==
    /\ pc = "idle"
    /\ ret' = [fn |-> "diff_dir", value |-> diff_dir(Path1, Path2)]
    /\ pc' = "called"
    /\ UNCHANGED <<fs, check_cio, check_file, idx, results, exc, faults>>

NextCall ==
    \/ CallDiff
    \/ CallDiffDir

SpecCall == InitCall /\ [][NextCall]_vars

----------------------------------------------------------------------------
(* Facts about the snapshot and the verdict used by the properties *)

\* every entry, of any kind and depth, below the expected-file root
UnderExpectedFile ==
    {p \in AllPaths : IsPrefix(EXPECTED_FILE, p) /\ p # EXPECTED_FILE
                      /\ fs[p].kind # "none"}

\* the names present directly under the expected-console root
ConsolePresent ==
    {n \in ConsoleNames : fs[EXPECTED_CONSOLE \o <<n>>].kind # "none"}

RelKey(p) == as_posix(relative_to(p, EXPECTED_FILE))
ActualOf(p) == HOME_DIR \o relative_to(p, EXPECTED_FILE)

\* p is a regular file or a directory whose actual counterpart is absent
\* or is of the other of these two kinds
MissingArtifact(p) ==
    /\ fs[p].kind \in {"file", "dir"}
    /\ \/ Entry(ActualOf(p)).kind = "none"
       \/ fs[p].kind = "file" /\ Entry(ActualOf(p)).kind = "dir"
       \/ fs[p].kind = "dir" /\ Entry(ActualOf(p)).kind = "file"

BothRegular == Entry(Path1).kind = "file" /\ Entry(Path2).kind = "file"
BothDirectories == Entry(Path1).kind = "dir" /\ Entry(Path2).kind = "dir"

\* bit i of n
Bit(n, i) == (n \div (2 ^ i)) % 2

----------------------------------------------------------------------------
(* Properties *)

\* C1: when collect_result returns, the keys of the file mapping are
\* exactly the POSIX relative paths of the entries (of any kind, at any
\* depth) below the expected-file root.
C1_Completeness ==
    pc = "returned" =>
        DOMAIN results.file = {RelKey(p) : p \in UnderExpectedFile}

\* C2: diff on two existing regular files with byte-identical content,
\* the diff subprocess ending normally, returns exactly (IDENTICAL, "").
C2_IdenticalGivesEmptyPayload ==
    (ret.fn = "diff" /\ faults = 0 /\ BothRegular
        /\ Entry(Path1).text = Entry(Path2).text)
    => ret.value = TextOutcome(DIFF_PASS, "")

\* C3: whatever the diff subprocess does, the status diff returns is one
\* of IDENTICAL, DIFFERENT and ERROR.
C3_TriStateStatus ==
    ret.fn = "diff" => ret.value.status \in {DIFF_PASS, DIFF_FAIL, DIFF_ERR}

\* C4: for two existing directories with permission masks a and b,
\* diff_dir returns (IDENTICAL, 0) if a = b and otherwise DIFFERENT with
\* exactly the bits set in which a and b differ; the payload is zero
\* exactly when the status is IDENTICAL; 0755 against 0744 gives
\* (DIFFERENT, 0o011).
C4_BitExactPermissionDiff ==
    (ret.fn = "diff_dir" /\ BothDirectories) =>
        LET a == Entry(Path1).mode - \o40000
            b == Entry(Path2).mode - \o40000
            v == ret.value
        IN  /\ v.kind = "mask"
            /\ v.mask \in 0..\o7777
            /\ \A i \in 0..11 :
                 (Bit(v.mask, i) = 1) <=> (Bit(a, i) # Bit(b, i))
            /\ v.status = (IF a = b THEN DIFF_PASS ELSE DIFF_FAIL)
            /\ (v.mask = 0) <=> (v.status = DIFF_PASS)
            /\ (a = \o755 /\ b = \o744) => v = MaskOutcome(DIFF_FAIL, \o11)

C4_Witness ==
    /\ ret.fn = "diff_dir"
    /\ Entry(Path1) = Directory(\o755)
    /\ Entry(Path2) = Directory(\o744)
    /\ ret.value = MaskOutcome(DIFF_FAIL, 9)

\* C5: an expected regular file or directory whose actual counterpart is
\* absent or of the other kind gets (ERROR, "") resp. (ERROR, 0), never
\* DIFFERENT; such a pair never aborts the call, and every expected file
\* or directory still has its outcome when the call returns.
C5_MissingArtifactIsError ==
    /\ pc = "returned" =>
         \A p \in UnderExpectedFile :
            /\ (is_file(p) \/ is_dir(p)) => RelKey(p) \in DOMAIN results.file
            /\ MissingArtifact(p) =>
                 /\ RelKey(p) \in DOMAIN results.file
                 /\ results.file[RelKey(p)] =
                      (IF fs[p].kind = "file" THEN TextOutcome(DIFF_ERR, "")
                       ELSE MaskOutcome(DIFF_ERR, 0))
    /\ pc = "file" =>
         \A k \in 1..(idx - 1) :
            MissingArtifact(check_file[k][1]) =>
               /\ RelKey(check_file[k][1]) \in DOMAIN results.file
               /\ results.file[RelKey(check_file[k][1])].status = DIFF_ERR
    /\ (pc = "raised" /\ Len(check_file) > 0) =>
         ~MissingArtifact(check_file[idx][1])

C5_Witness ==
    /\ pc = "returned"
    /\ fs[EXPECTED_FILE \o <<"out">>].kind = "dir"
    /\ Entry(HOME_DIR \o <<"out">>).kind = "dir"
    /\ fs[EXPECTED_FILE \o <<"out", "a.txt">>].kind = "file"
    /\ Entry(HOME_DIR \o <<"out", "a.txt">>).kind = "none"
    /\ results.file["out"].status = DIFF_FAIL
    /\ results.file["out/a.txt"] = TextOutcome(DIFF_ERR, "")

\* C6: when collect_result returns, every entry below the expected-file
\* root that is neither a regular file nor a directory has its relative
\* path in the file mapping, with status ERROR.
C6_UnsupportedKindReported ==
    pc = "returned" =>
        \A p \in UnderExpectedFile :
            (~is_file(p) /\ ~is_dir(p)) =>
                /\ RelKey(p) \in DOMAIN results.file
                /\ results.file[RelKey(p)].status = DIFF_ERR

C8_ConsoleCoverage ==
    /\ pc \in {"cio", "file", "returned"} =>
         /\ {check_cio[k] : k \in 1..Len(check_cio)} =
              {<<EXPECTED_CONSOLE \o <<n>>, OUTPUT_DIR \o <<n>> >> :
                  n \in ConsolePresent \ {F_STDIN}}
         /\ Len(check_cio) = Cardinality(ConsolePresent \ {F_STDIN})
    /\ pc = "returned" =>
         /\ ("stdout" \in DOMAIN results.console) <=> (F_STDOUT \in ConsolePresent)
         /\ ("stderr" \in DOMAIN results.console) <=> (F_STDERR \in ConsolePresent)
         /\ DOMAIN results.console \subseteq {"stdout", "stderr"}

C8_Witness ==
    /\ pc = "returned"
    /\ ConsolePresent = {F_STDIN, F_STDOUT}
    /\ DOMAIN results.console = {"stdout"}

\* C9: when a path given to diff is a symbolic link, diff returns
\* (ERROR, "") and the link's target is not compared.
C9_NoSymlinkDereference ==
    (ret.fn = "diff"
        /\ (Entry(Path1).kind = "link" \/ Entry(Path2).kind = "link"))
    => ret.value = TextOutcome(DIFF_ERR, "")

\* C10: collect_result returns a verdict only if the expected-file root
\* and the expected-console root exist.
C10_MissingRootEscalated ==
    pc = "returned" =>
        /\ Entry(EXPECTED_CONSOLE).kind = "dir"
        /\ Entry(EXPECTED_FILE).kind = "dir"

====
